---- MODULE Spec2Model ----
(***************************************************************************)
(* Azure private-zone DNS-01 provider (providers/dns/azure/private.go).    *)
(*                                                                         *)
(* Strings are sequences of tokens: a token is a DNS label or the dot ".". *)
(* "example.com." is <<"example", ".", "com", ".">>; concatenation is \o.  *)
(*                                                                         *)
(* The Azure record-set API is the environment: a map from (zone, name) to *)
(* a TXT record set, each TXT record a list of strings.  Every API call is *)
(* answered atomically: a call answered with an error had no effect.       *)
(* Callers are threads; each network round trip of a call is one step, so  *)
(* that calls of different threads interleave between round trips.         *)
(***************************************************************************)
EXTENDS Integers, Sequences, FiniteSets, TLC

VARIABLES
    config,        \* d.config: PropagationTimeout, PollingInterval, TTL (seconds)
    timeoutRet,    \* what the last Timeout call returned
    envZoneName,   \* value of the zone-name environment variable ("" = unset)
    zoneNameDot,   \* Azure: whether the zone read answers names with a trailing dot
    store,         \* Azure: [zone, name] -> sequence of TXT records
    th,            \* per calling thread: the call in progress (or the last one finished)
    budget         \* calls that may still be started

vars == <<config, timeoutRet, envZoneName, zoneNameDot, store, th, budget>>

\* ---------------------------------------------------------------- bounds

MaxCalls == 3

MaxConcurrentCalls == 2

\* the callers: Spec runs the calls of one caller one after the other,
\* SpecConcurrent lets the calls of two callers overlap
Threads == {"t1", "t2"}

Sequential == {"t1"}

\* ------------------------------------------------------------- strings

EmptyStr == << >>

Dot == <<".">>

example_com == <<"example", ".", "com">>

sub_example_com == <<"sub", ".", "example", ".", "com">>

acme_example_com == <<"_acme-challenge", ".", "example", ".", "com">>

HasSuffix(s, suffix) ==
    /\ Len(suffix) <= Len(s)
    /\ SubSeq(s, Len(s) - Len(suffix) + 1, Len(s)) = suffix

TrimSuffix(s, suffix) ==
    IF HasSuffix(s, suffix) THEN SubSeq(s, 1, Len(s) - Len(suffix)) ELSE s

ToFqdn(name) ==
    IF Len(name) = 0 \/ name[Len(name)] = "." THEN name ELSE name \o Dot

UnFqdn(name) ==
    IF Len(name) # 0 /\ name[Len(name)] = "." THEN SubSeq(name, 1, Len(name) - 1) ELSE name

\* parent and child in FQDN form; label-wise suffix test
IsSubDomain(parent, child) ==
    /\ HasSuffix(child, parent)
    /\ \/ Len(child) = Len(parent)
       \/ child[Len(child) - Len(parent)] = "."

\* ------------------------------------------------- dns01 / env helpers

KeyAuths == {"key1", "key2"}

Domains == {example_com, sub_example_com}

\* base64url(sha256(keyAuth)): an injective digest, never the key authorization itself
KeyAuthDigest(keyAuth) ==
    CASE keyAuth = "key1" -> "dgst1"
      [] keyAuth = "key2" -> "dgst2"

GetChallengeInfo(domain, keyAuth) ==
    [EffectiveFQDN |-> <<"_acme-challenge", ".">> \o domain \o Dot,
     Value |-> KeyAuthDigest(keyAuth)]

StrResult(e, v) == [err |-> e, val |-> v]

ExtractSubDomain(domain, zone) ==
    LET canonDomain == ToFqdn(domain)
        canonZone == ToFqdn(zone)
    IN  IF canonDomain = canonZone
        THEN StrResult(TRUE, EmptyStr)
        ELSE IF ~IsSubDomain(canonZone, canonDomain)
        THEN StrResult(TRUE, EmptyStr)
        ELSE StrResult(FALSE, TrimSuffix(canonDomain, Dot \o canonZone))

\* zones for which the public DNS answers an SOA record
DnsSOA == {example_com \o Dot}

\* the suffixes of fqdn that start at a label, longest first, from position i
RECURSIVE SOAWalk(_, _)
SOAWalk(fqdn, i) ==
    IF i > Len(fqdn)
    THEN StrResult(TRUE, EmptyStr)
    ELSE IF fqdn[i] # "." /\ (i = 1 \/ fqdn[i - 1] = ".")
              /\ SubSeq(fqdn, i, Len(fqdn)) \in DnsSOA
    THEN StrResult(FALSE, SubSeq(fqdn, i, Len(fqdn)))
    ELSE SOAWalk(fqdn, i + 1)

\* what dns01.FindZoneByFqdn may return: the walk's zone, or a lookup failure
FindZoneByFqdn(fqdn) == {SOAWalk(fqdn, 1), StrResult(TRUE, EmptyStr)}

\* what the private-zones read may answer for zoneName: the zone, its name in the
\* API's convention (with or without a trailing dot), or a failure
PrivateZonesGet(zoneName) ==
    {StrResult(FALSE, IF zoneNameDot THEN zoneName \o Dot ELSE zoneName),
     StrResult(TRUE, EmptyStr)}

\* to.String: the pointed-to string
to_String(name) == name

Call(api, zone, name) == [api |-> api, zone |-> zone, name |-> name]

\* a slip: the error of the zone read is dropped and the zone of the lookup used
lookupHostedZone_ReadErrorDropped(fqdn, authAns, zoneAns) ==
    IF authAns.err
    THEN [zone |-> EmptyStr, err |-> TRUE,
          calls |-> <<Call("FindZoneByFqdn", fqdn, EmptyStr)>>]
    ELSE [zone |-> IF zoneAns.err THEN UnFqdn(authAns.val) ELSE to_String(zoneAns.val),
          err |-> FALSE,
          calls |-> <<Call("FindZoneByFqdn", fqdn, EmptyStr),
                      Call("PrivateZones.Get", UnFqdn(authAns.val), EmptyStr)>>]

\* private.go:119-133: the lookup path
lookupHostedZone(fqdn, authAns, zoneAns) ==
    IF authAns.err
    THEN [zone |-> EmptyStr, err |-> TRUE,
          calls |-> <<Call("FindZoneByFqdn", fqdn, EmptyStr)>>]
    ELSE IF zoneAns.err
    THEN [zone |-> EmptyStr, err |-> TRUE,
          calls |-> <<Call("FindZoneByFqdn", fqdn, EmptyStr),
                      Call("PrivateZones.Get", UnFqdn(authAns.val), EmptyStr)>>]
    ELSE [zone |-> to_String(zoneAns.val), err |-> FALSE,
          calls |-> <<Call("FindZoneByFqdn", fqdn, EmptyStr),
                      Call("PrivateZones.Get", UnFqdn(authAns.val), EmptyStr)>>]

\* a slip: the configured zone name is not consulted
getHostedZoneID_NoOverride(fqdn, authAns, zoneAns) == lookupHostedZone(fqdn, authAns, zoneAns)

\* private.go:114-134: [zone, err, calls] for the answers authAns (FindZoneByFqdn)
\* and zoneAns (zone read), which the override path does not ask for
getHostedZoneID(fqdn, authAns, zoneAns) ==
    IF envZoneName # EmptyStr
    THEN [zone |-> envZoneName, err |-> FALSE, calls |-> << >>]
    ELSE lookupHostedZone(fqdn, authAns, zoneAns)

\* ------------------------------------------------------- API answers

StatusNotFound == 404

NilErr == [isNil |-> TRUE, detailed |-> FALSE, StatusCode |-> 0]

DetailedError(code) == [isNil |-> FALSE, detailed |-> TRUE, StatusCode |-> code]

\* a failure below HTTP: no status, not an autorest.DetailedError
TransportError == [isNil |-> FALSE, detailed |-> FALSE, StatusCode |-> 0]

\* an answer with another status than 2xx or 404
ApiError == DetailedError(500)

NilRecordSet == [hasProperties |-> FALSE, hasTxtRecords |-> FALSE, TxtRecords |-> << >>]

Key(zone, name) == [zone |-> zone, name |-> name]

\* record read: the record set, 404 when there is none, or a failure
RecordSetsGet(key) ==
    (IF key \in DOMAIN store
     THEN {[err |-> NilErr,
            rset |-> [hasProperties |-> TRUE, hasTxtRecords |-> TRUE,
                      TxtRecords |-> store[key]]]}
     ELSE {[err |-> DetailedError(StatusNotFound), rset |-> NilRecordSet]})
    \cup {[err |-> ApiError, rset |-> NilRecordSet],
          [err |-> TransportError, rset |-> NilRecordSet]}

\* record write and record delete: done, or a failure that leaves the store alone
RecordSetsCreateOrUpdate == {NilErr, ApiError}

RecordSetsDelete == {NilErr, ApiError}

\* --------------------------------------------------------- the calls

NoRecords == [stored |-> FALSE, TxtRecords |-> << >>]

Records(txt) == [stored |-> TRUE, TxtRecords |-> txt]

\* what a caller remembers of its previous call
NoCall == [op |-> "none", ok |-> FALSE, zone |-> EmptyStr, subDomain |-> EmptyStr, value |-> ""]

Summary(call) ==
    [op |-> call.op, ok |-> (call.ret = "nil"), zone |-> call.zone,
     subDomain |-> call.subDomain, value |-> call.value]

\* pc, op .. ret are the call's locals and its returned error; calls lists its outbound
\* calls in order; written is the record set its write stored, found the store's entry
\* when its delete was answered, delErr that answer; zoneFault tells that the zone
\* lookup or the zone read of the call was answered with an error; prev is the caller's
\* previous call
IdleThread ==
    [pc |-> "idle", op |-> "none", fqdn |-> EmptyStr, value |-> "",
     zone |-> EmptyStr, subDomain |-> EmptyStr,
     rset |-> NilRecordSet, getErr |-> NilErr,
     ret |-> "none", calls |-> << >>,
     written |-> NoRecords, found |-> NoRecords, delErr |-> NilErr,
     zoneFault |-> FALSE, prev |-> NoCall]

Range(seq) == {seq[i] : i \in DOMAIN seq}

\* the sequences that hold each element of S exactly once
Orderings(S) ==
    {seq \in [1..Cardinality(S) -> S] : \A i, j \in 1..Cardinality(S) : i # j => seq[i] # seq[j]}

\* a slip: every string of an existing record is carried over, not only the first
uniqRecords_AllStrings(value, rset) ==
    {value} \cup
    (IF rset.hasProperties /\ rset.hasTxtRecords
     THEN UNION {Range(r) : r \in Range(rset.TxtRecords)}
     ELSE {})

\* a slip: the existing records are not carried over
uniqRecords_OnlyValue(value, rset) == {value}

\* a slip: && where the code has ||, so that only transport errors are returned
IsFatalReadError_And(err) ==
    ~err.isNil /\ (~err.detailed /\ err.StatusCode # StatusNotFound)

\* a slip: every read error is returned, "not found" too
IsFatalReadError_Any(err) == ~err.isNil

\* private.go:51: the read error Present returns rather than swallows
IsFatalReadError(err) ==
    ~err.isNil /\ (~err.detailed \/ err.StatusCode # StatusNotFound)

\* private.go:57-66: the challenge value and the first string of each existing record
uniqRecords(value, rset) ==
    {value} \cup
    (IF rset.hasProperties /\ rset.hasTxtRecords
     THEN {r[1] : r \in {x \in Range(rset.TxtRecords) : Len(x) > 0}}
     ELSE {})

\* private.go:68-71: one single-string record per key, in map iteration order
txtRecords(uniq) == {[i \in DOMAIN seq |-> <<seq[i]>>] : seq \in Orderings(uniq)}

\* a slip: the challenge value appended to the records read, no map in between
mergedTxtRecords_Append(value, rset) ==
    {(IF rset.hasProperties /\ rset.hasTxtRecords THEN rset.TxtRecords ELSE << >>)
        \o << <<value>> >>}

\* private.go:56-71: the record lists Present may write
mergedTxtRecords(value, rset) == txtRecords(uniqRecords(value, rset))

\* a slip: the whole record name taken as the name relative to the zone
subDomainOf_Fqdn(fqdn, zone) == StrResult(FALSE, UnFqdn(fqdn))

\* private.go:42 and 98: the record name relative to the zone
subDomainOf(fqdn, zone) == ExtractSubDomain(fqdn, zone)

\* private.go:34-45 and 93-101: zone resolution, then sub-domain extraction
Resolve(t, op, info, authAns, zoneAns, next) ==
    LET hz == getHostedZoneID(info.EffectiveFQDN, authAns, zoneAns)
        sd == subDomainOf(info.EffectiveFQDN, hz.zone)
        begun == [IdleThread EXCEPT !.op = op, !.fqdn = info.EffectiveFQDN,
                                    !.value = info.Value, !.calls = hz.calls,
                                    !.zoneFault = (hz.calls # << >>
                                                   /\ (authAns.err \/ zoneAns.err)),
                                    !.prev = Summary(th[t])]
    IN  IF hz.err
        THEN [begun EXCEPT !.ret = "azure: zone"]
        ELSE IF sd.err
        THEN [begun EXCEPT !.zone = hz.zone, !.ret = "azure: subdomain"]
        ELSE [begun EXCEPT !.zone = hz.zone, !.subDomain = sd.val,
                           !.pc = next, !.ret = "running"]

PresentBegin(t, domain, keyAuth) ==
    /\ th[t].pc = "idle"
    /\ budget > 0
    /\ LET info == GetChallengeInfo(domain, keyAuth)
       IN  \E authAns \in FindZoneByFqdn(info.EffectiveFQDN) :
           \E zoneAns \in PrivateZonesGet(UnFqdn(authAns.val)) :
               th' = [th EXCEPT ![t] = Resolve(t, "Present", info, authAns, zoneAns, "get")]
    /\ budget' = budget - 1
    /\ UNCHANGED <<config, timeoutRet, envZoneName, zoneNameDot, store>>

PresentGet(t) ==
    /\ th[t].pc = "get"
    /\ LET key == Key(th[t].zone, th[t].subDomain)
           call == Call("RecordSets.Get", th[t].zone, th[t].subDomain)
       IN  \E ans \in RecordSetsGet(key) :
               th' = [th EXCEPT ![t] =
                        IF IsFatalReadError(ans.err)
                        THEN [@ EXCEPT !.pc = "idle", !.ret = "azure: get",
                                       !.getErr = ans.err, !.rset = ans.rset,
                                       !.calls = Append(@, call)]
                        ELSE [@ EXCEPT !.pc = "put",
                                       !.getErr = ans.err, !.rset = ans.rset,
                                       !.calls = Append(@, call)]]
    /\ UNCHANGED <<config, timeoutRet, envZoneName, zoneNameDot, store, budget>>

\* a slip: the record set is deleted and then created, so a failed create leaves it deleted
PresentPut_DeleteThenCreate(t) ==
    /\ th[t].pc = "put"
    /\ LET key == Key(th[t].zone, th[t].subDomain)
           call == Call("RecordSets.CreateOrUpdate", th[t].zone, th[t].subDomain)
       IN  \E rec \in mergedTxtRecords(th[t].value, th[t].rset) :
           \E err \in RecordSetsCreateOrUpdate :
               IF err.isNil
               THEN /\ store' = [k \in DOMAIN store \cup {key} |->
                                    IF k = key THEN rec ELSE store[k]]
                    /\ th' = [th EXCEPT ![t] = [@ EXCEPT !.pc = "idle", !.ret = "nil",
                                                         !.written = Records(rec),
                                                         !.calls = Append(@, call)]]
               ELSE /\ store' = [k \in DOMAIN store \ {key} |-> store[k]]
                    /\ th' = [th EXCEPT ![t] = [@ EXCEPT !.pc = "idle", !.ret = "azure: put",
                                                         !.calls = Append(@, call)]]
    /\ UNCHANGED <<config, timeoutRet, envZoneName, zoneNameDot, budget>>

PresentPut(t) ==
    /\ th[t].pc = "put"
    /\ LET key == Key(th[t].zone, th[t].subDomain)
           call == Call("RecordSets.CreateOrUpdate", th[t].zone, th[t].subDomain)
       IN  \E rec \in mergedTxtRecords(th[t].value, th[t].rset) :
           \E err \in RecordSetsCreateOrUpdate :
               IF err.isNil
               THEN /\ store' = [k \in DOMAIN store \cup {key} |->
                                    IF k = key THEN rec ELSE store[k]]
                    /\ th' = [th EXCEPT ![t] = [@ EXCEPT !.pc = "idle", !.ret = "nil",
                                                         !.written = Records(rec),
                                                         !.calls = Append(@, call)]]
               ELSE /\ th' = [th EXCEPT ![t] = [@ EXCEPT !.pc = "idle", !.ret = "azure: put",
                                                         !.calls = Append(@, call)]]
                    /\ UNCHANGED store
    /\ UNCHANGED <<config, timeoutRet, envZoneName, zoneNameDot, budget>>

CleanUpBegin(t, domain, keyAuth) ==
    /\ th[t].pc = "idle"
    /\ budget > 0
    /\ LET info == GetChallengeInfo(domain, keyAuth)
       IN  \E authAns \in FindZoneByFqdn(info.EffectiveFQDN) :
           \E zoneAns \in PrivateZonesGet(UnFqdn(authAns.val)) :
               th' = [th EXCEPT ![t] = Resolve(t, "CleanUp", info, authAns, zoneAns, "delete")]
    /\ budget' = budget - 1
    /\ UNCHANGED <<config, timeoutRet, envZoneName, zoneNameDot, store>>

\* a slip: only the call's own value is taken out, and the rest written back
CleanUpDelete_OwnValue(t) ==
    /\ th[t].pc = "delete"
    /\ LET key == Key(th[t].zone, th[t].subDomain)
           call == Call("RecordSets.Delete", th[t].zone, th[t].subDomain)
           found == IF key \in DOMAIN store THEN Records(store[key]) ELSE NoRecords
           rest == SelectSeq(found.TxtRecords, LAMBDA r : r # <<th[t].value>>)
       IN  /\ store' = IF rest = << >>
                       THEN [k \in DOMAIN store \ {key} |-> store[k]]
                       ELSE [k \in DOMAIN store |-> IF k = key THEN rest ELSE store[k]]
           /\ th' = [th EXCEPT ![t] = [@ EXCEPT !.pc = "idle", !.ret = "nil",
                                                !.found = found, !.delErr = NilErr,
                                                !.calls = Append(@, call)]]
    /\ UNCHANGED <<config, timeoutRet, envZoneName, zoneNameDot, budget>>

\* a slip: the record set is read first, and "not found" returned as an error
CleanUpDelete_ReadFirst(t) ==
    /\ th[t].pc = "delete"
    /\ LET key == Key(th[t].zone, th[t].subDomain)
           found == IF key \in DOMAIN store THEN Records(store[key]) ELSE NoRecords
       IN  IF key \in DOMAIN store
           THEN /\ store' = [k \in DOMAIN store \ {key} |-> store[k]]
                /\ th' = [th EXCEPT ![t] = [@ EXCEPT !.pc = "idle", !.ret = "nil",
                            !.found = found,
                            !.calls = Append(@, Call("RecordSets.Delete", th[t].zone, th[t].subDomain))]]
           ELSE /\ th' = [th EXCEPT ![t] = [@ EXCEPT !.pc = "idle", !.ret = "azure: get",
                            !.found = found,
                            !.calls = Append(@, Call("RecordSets.Get", th[t].zone, th[t].subDomain))]]
                /\ UNCHANGED store
    /\ UNCHANGED <<config, timeoutRet, envZoneName, zoneNameDot, budget>>

\* a slip: the delete is addressed to the zone, and takes every record set of it
CleanUpDelete_WholeZone(t) ==
    /\ th[t].pc = "delete"
    /\ LET key == Key(th[t].zone, th[t].subDomain)
           call == Call("RecordSets.Delete", th[t].zone, th[t].subDomain)
           found == IF key \in DOMAIN store THEN Records(store[key]) ELSE NoRecords
       IN  \E err \in RecordSetsDelete :
               IF err.isNil
               THEN /\ store' = [k \in {x \in DOMAIN store : x.zone # th[t].zone} |-> store[k]]
                    /\ th' = [th EXCEPT ![t] = [@ EXCEPT !.pc = "idle", !.ret = "nil",
                                                         !.found = found, !.delErr = err,
                                                         !.calls = Append(@, call)]]
               ELSE /\ th' = [th EXCEPT ![t] = [@ EXCEPT !.pc = "idle", !.ret = "azure: delete",
                                                         !.found = found, !.delErr = err,
                                                         !.calls = Append(@, call)]]
                    /\ UNCHANGED store
    /\ UNCHANGED <<config, timeoutRet, envZoneName, zoneNameDot, budget>>

CleanUpDelete(t) ==
    /\ th[t].pc = "delete"
    /\ LET key == Key(th[t].zone, th[t].subDomain)
           call == Call("RecordSets.Delete", th[t].zone, th[t].subDomain)
           found == IF key \in DOMAIN store THEN Records(store[key]) ELSE NoRecords
       IN  \E err \in RecordSetsDelete :
               IF err.isNil
               THEN /\ store' = [k \in DOMAIN store \ {key} |-> store[k]]
                    /\ th' = [th EXCEPT ![t] = [@ EXCEPT !.pc = "idle", !.ret = "nil",
                                                         !.found = found, !.delErr = err,
                                                         !.calls = Append(@, call)]]
               ELSE /\ th' = [th EXCEPT ![t] = [@ EXCEPT !.pc = "idle", !.ret = "azure: delete",
                                                         !.found = found, !.delErr = err,
                                                         !.calls = Append(@, call)]]
                    /\ UNCHANGED store
    /\ UNCHANGED <<config, timeoutRet, envZoneName, zoneNameDot, budget>>

\* what Timeout has not returned yet
NoDurations == <<0, 0>>

\* a slip: the two durations returned in the other order
TimeoutDurations_Swapped == <<config.PollingInterval, config.PropagationTimeout>>

\* private.go:26: the pair Timeout returns
TimeoutDurations == <<config.PropagationTimeout, config.PollingInterval>>

\* private.go:25-27: Timeout, called by a caller that is not inside Present or CleanUp
Timeout(t) ==
    /\ th[t].pc = "idle"
    /\ timeoutRet' = TimeoutDurations
    /\ UNCHANGED <<config, envZoneName, zoneNameDot, store, th, budget>>

\* ------------------------------------------------------ specification

\* configurations: the defaults of the provider, and another one
Configs ==
    {[PropagationTimeout |-> 120, PollingInterval |-> 2, TTL |-> 60],
     [PropagationTimeout |-> 300, PollingInterval |-> 5, TTL |-> 120]}

DefaultConfig == [PropagationTimeout |-> 120, PollingInterval |-> 2, TTL |-> 60]

\* the zone-name override: unset, the zone of the lookup, a sub-zone, or the record's own name
ZoneNames == {EmptyStr, example_com, sub_example_com, acme_example_com}

Key0 == Key(example_com, <<"_acme-challenge">>)

\* what may be stored at Key0 before the first call: single-string records in either
\* order; a record of two strings, one without strings and a repeated first string;
\* the value of an earlier challenge
InitialRecordSets ==
    {<< <<"a">>, <<"b">> >>,
     << <<"b">>, <<"a">> >>,
     << <<"a", "b">>, << >>, <<"a">> >>,
     << <<"dgst1">> >>}

InitWith(configs, zoneNames, recordSets, maxCalls) ==
    /\ config \in configs
    /\ timeoutRet = NoDurations
    /\ envZoneName \in zoneNames
    /\ zoneNameDot \in (IF envZoneName = EmptyStr THEN BOOLEAN ELSE {FALSE})
    /\ \/ store = << >>
       \/ \E rs \in recordSets : store = [k \in {Key0} |-> rs]
    /\ th = [t \in Threads |-> IdleThread]
    /\ budget = maxCalls

Init == InitWith({DefaultConfig}, ZoneNames, InitialRecordSets, MaxCalls)

InitConcurrent == InitWith({DefaultConfig}, {EmptyStr}, {<< <<"a">> >>}, MaxConcurrentCalls)

InitTimeout == InitWith(Configs, {EmptyStr, sub_example_com}, {<< <<"a">> >>}, MaxCalls)

Step(t) ==
    \/ \E domain \in Domains, keyAuth \in KeyAuths : PresentBegin(t, domain, keyAuth)
    \/ PresentGet(t)
    \/ PresentPut(t)
    \/ \E domain \in Domains, keyAuth \in KeyAuths : CleanUpBegin(t, domain, keyAuth)
    \/ CleanUpDelete(t)

Next == \E t \in Sequential : Step(t)

NextConcurrent == \E t \in Threads : Step(t)

NextTimeout ==
    \E t \in Sequential :
        \/ Step(t)
        \/ Timeout(t)

Spec == Init /\ [][Next]_vars

SpecConcurrent == InitConcurrent /\ [][NextConcurrent]_vars

\* the calls of one caller with Timeout calls in between
SpecTimeout == InitTimeout /\ [][NextTimeout]_vars

\* ------------------------------------------------------------ claims

KeyOf(c) == Key(c.zone, c.subDomain)

Count(x, seq) == Cardinality({i \in DOMAIN seq : seq[i] = x})

HasCall(c, api) == \E i \in DOMAIN c.calls : c.calls[i].api = api

\* the call has returned nil
Succeeded(c, op) == c.op = op /\ c.pc = "idle" /\ c.ret = "nil"

\* the caller's previous call was a successful op on the same record name and value
Follows(c, op) ==
    /\ c.prev.op = op /\ c.prev.ok
    /\ c.prev.zone = c.zone /\ c.prev.subDomain = c.subDomain
    /\ c.prev.value = c.value

\* the store holds at the call's record name exactly what the call wrote
StoredAsWritten(c) ==
    /\ c.written.stored
    /\ KeyOf(c) \in DOMAIN store
    /\ store[KeyOf(c)] = c.written.TxtRecords

\* C1: a successful Present(v) that follows a successful Present(v) on the same name
\* leaves the record set with the value set the first call left, and with v exactly once.
C1_PresentIdempotent ==
    \A t \in Threads :
        LET c == th[t]
        IN  (Succeeded(c, "Present") /\ Follows(c, "Present")) =>
                /\ StoredAsWritten(c)
                /\ Range(c.written.TxtRecords) = Range(c.rset.TxtRecords)
                /\ Count(<<c.value>>, c.written.TxtRecords) = 1

\* a second Present(v) succeeded on a record set that holds other values beside v
C1_Witness ==
    \E t \in Threads :
        /\ Succeeded(th[t], "Present") /\ Follows(th[t], "Present")
        /\ Len(th[t].written.TxtRecords) >= 2

SingleStrings(txt) == \A i \in DOMAIN txt : Len(txt[i]) = 1

\* C2: a successful Present(c) that read a record set of single-string values leaves
\* exactly those values and c, in whatever order they were stored or are emitted.
C2_PresentMerges ==
    \A t \in Threads :
        LET c == th[t]
        IN  (Succeeded(c, "Present") /\ c.getErr.isNil /\ SingleStrings(c.rset.TxtRecords)) =>
                /\ StoredAsWritten(c)
                /\ Range(c.written.TxtRecords) = Range(c.rset.TxtRecords) \cup {<<c.value>>}
                /\ SingleStrings(c.written.TxtRecords)

\* Present(c) succeeded on {a, b} stored as b, a and left three values
C2_Witness ==
    \E t \in Threads :
        /\ Succeeded(th[t], "Present")
        /\ th[t].rset.TxtRecords = << <<"b">>, <<"a">> >>
        /\ Cardinality(Range(th[t].written.TxtRecords)) = 3

\* C3: a "not found" answer to the record read does not make Present fail: the write is
\* issued, and when it succeeds the record set is exactly {value}.
C3_PresentOnAbsence ==
    \A t \in Threads :
        LET c == th[t]
        IN  (c.op = "Present" /\ c.getErr = DetailedError(StatusNotFound)) =>
                /\ c.ret # "azure: get"
                /\ c.pc \in {"put", "idle"}
                /\ c.pc = "idle" => HasCall(c, "RecordSets.CreateOrUpdate")
                /\ c.ret = "nil" =>
                      /\ StoredAsWritten(c)
                      /\ c.written.TxtRecords = << <<c.value>> >>

\* Present succeeded where the read was answered "not found"
C3_Witness ==
    \E t \in Threads :
        /\ Succeeded(th[t], "Present")
        /\ th[t].getErr = DetailedError(StatusNotFound)
        /\ store[KeyOf(th[t])] = << <<th[t].value>> >>

\* C4: after Present(v) and then CleanUp on the same name, every other TXT value that
\* was at that name is still there, and only v is gone.
C4_CleanUpRemovesOnlyOwnValue ==
    \A t \in Threads :
        LET c == th[t]
        IN  (Succeeded(c, "CleanUp") /\ Follows(c, "Present")) =>
                /\ KeyOf(c) \notin DOMAIN store \/ <<c.value>> \notin Range(store[KeyOf(c)])
                /\ \A r \in Range(c.found.TxtRecords) \ {<<c.value>>} :
                      KeyOf(c) \in DOMAIN store /\ r \in Range(store[KeyOf(c)])

\* C5: after a successful CleanUp no record set exists at (zone, subDomain), whatever
\* it held when the delete was answered.
C5_CleanUpDeletesRecordSet ==
    \A t \in Threads :
        Succeeded(th[t], "CleanUp") => KeyOf(th[t]) \notin DOMAIN store

\* CleanUp of dgst1 removed a record set that was created by Present and to which the
\* Present of another key authorization had added dgst2 in between
C5_Witness ==
    \E t \in Threads :
        LET c == th[t]
        IN  /\ Succeeded(c, "CleanUp")
            /\ KeyOf(c) # Key0
            /\ c.value = "dgst1"
            /\ c.prev.op = "Present" /\ c.prev.ok /\ c.prev.value = "dgst2"
            /\ c.prev.zone = c.zone /\ c.prev.subDomain = c.subDomain
            /\ Range(c.found.TxtRecords) = {<<"dgst1">>, <<"dgst2">>}
            /\ KeyOf(c) \notin DOMAIN store

\* C6: a delete that finds no record set and is answered without a fault makes CleanUp
\* return nil and leaves the store as it was.
C6_CleanUpOnAbsence ==
    [][\A t \in Threads :
          (/\ th[t].pc = "delete" /\ th'[t].pc = "idle"
           /\ KeyOf(th[t]) \notin DOMAIN store
           /\ th'[t].delErr.isNil)
          => (th'[t].ret = "nil" /\ store' = store)]_vars

\* CleanUp succeeded on an absent record set right after a successful CleanUp of it
C6_Witness ==
    \E t \in Threads :
        /\ Succeeded(th[t], "CleanUp") /\ Follows(th[t], "CleanUp")
        /\ ~th[t].found.stored
        /\ HasCall(th[t], "RecordSets.Delete")

IsZoneCall(call) == call.api \in {"FindZoneByFqdn", "PrivateZones.Get"}

\* C7: with a zone override configured, every call resolves to the override verbatim
\* and issues no zone lookup and no zone read.
C7_ZoneOverride ==
    \A t \in Threads :
        LET c == th[t]
        IN  (c.op # "none" /\ envZoneName # EmptyStr) =>
                /\ c.zone = envZoneName
                /\ c.ret # "azure: zone"
                /\ \A i \in DOMAIN c.calls : ~IsZoneCall(c.calls[i])

\* the override sub.example.com was used for a name the lookup resolves to example.com
C7_Witness ==
    \E t \in Threads :
        /\ Succeeded(th[t], "Present")
        /\ envZoneName = sub_example_com
        /\ th[t].zone = sub_example_com
        /\ SOAWalk(th[t].fqdn, 1) = StrResult(FALSE, example_com \o Dot)
        /\ KeyOf(th[t]) \in DOMAIN store

\* the non-empty prefixes p with fqdn = p . zone .
Prefixes(fqdn, zone) ==
    {p \in {SubSeq(fqdn, 1, n) : n \in 1..Len(fqdn)} : fqdn = p \o Dot \o UnFqdn(zone) \o Dot}

IsRecordCall(call) ==
    call.api \in {"RecordSets.Get", "RecordSets.CreateOrUpdate", "RecordSets.Delete"}

\* C8: when the effective FQDN is a non-empty prefix followed by the resolved zone, the
\* record name of every record call is that prefix; otherwise the call fails with the
\* sub-domain extraction error and issues no record call.
C8_RelativeName ==
    \A t \in Threads :
        LET c == th[t]
        IN  (c.op # "none" /\ c.ret # "azure: zone") =>
                IF Prefixes(c.fqdn, c.zone) # {}
                THEN /\ c.ret # "azure: subdomain"
                     /\ c.subDomain \in Prefixes(c.fqdn, c.zone)
                     /\ \A i \in DOMAIN c.calls :
                           IsRecordCall(c.calls[i]) =>
                               /\ c.calls[i].name \in Prefixes(c.fqdn, c.zone)
                               /\ c.calls[i].zone = c.zone
                ELSE /\ c.ret = "azure: subdomain"
                     /\ \A i \in DOMAIN c.calls : ~IsRecordCall(c.calls[i])

\* _acme-challenge.sub.example.com. in zone example.com was written at _acme-challenge.sub
C8_Witness ==
    \E t \in Threads :
        LET c == th[t]
        IN  /\ Succeeded(c, "Present")
            /\ c.fqdn = <<"_acme-challenge", ".">> \o sub_example_com \o Dot
            /\ c.zone = example_com
            /\ c.subDomain = <<"_acme-challenge", ".", "sub">>
            /\ c.calls[Len(c.calls)] =
                   Call("RecordSets.CreateOrUpdate", example_com, <<"_acme-challenge", ".", "sub">>)

\* C9: every read failure but "not found" makes Present return an error without a
\* create-or-update call; "not found" never makes the read step return an error.
C9_OnlyNotFoundSwallowed ==
    \A t \in Threads :
        LET c == th[t]
        IN  (c.op = "Present" /\ ~c.getErr.isNil) =>
                IF c.getErr.detailed /\ c.getErr.StatusCode = StatusNotFound
                THEN c.ret # "azure: get"
                ELSE /\ c.ret = "azure: get"
                     /\ c.pc = "idle"
                     /\ ~HasCall(c, "RecordSets.CreateOrUpdate")

\* Present returned the error of a read answered with another status than 404
C9_Witness ==
    \E t \in Threads :
        /\ th[t].op = "Present"
        /\ th[t].getErr = ApiError
        /\ th[t].ret = "azure: get"

Failed(c) == c.ret \notin {"none", "running", "nil"}

\* C10: a step in which a call returns an error leaves the store as it is, and the
\* store changes only in a Present write step or a CleanUp delete step that returns nil,
\* so that a call that returns an error has not changed the store.
C10_NoPartialSuccess ==
    [][/\ \A t \in Threads : (th'[t] # th[t] /\ Failed(th'[t])) => store' = store
       /\ store' # store =>
             \E t \in Threads :
                 /\ th[t].pc \in {"put", "delete"}
                 /\ th'[t].pc = "idle" /\ th'[t].ret = "nil"
                 /\ \A k \in (DOMAIN store \cup DOMAIN store') \ {KeyOf(th[t])} :
                       k \in DOMAIN store /\ k \in DOMAIN store' /\ store'[k] = store[k]]_vars

\* a write answered with an error made Present fail where a record set was stored
C10_Witness ==
    \E t \in Threads :
        /\ th[t].op = "Present" /\ th[t].ret = "azure: put"
        /\ KeyOf(th[t]) \in DOMAIN store
        /\ store[KeyOf(th[t])] = th[t].rset.TxtRecords

\* the first strings of the records a call read
FirstStrings(rset) == {r[1] : r \in {x \in Range(rset.TxtRecords) : Len(x) > 0}}

\* two callers whose first calls are successful Presents of distinct values at one name
TwoPresents(t, u) ==
    /\ t # u
    /\ Succeeded(th[t], "Present") /\ Succeeded(th[u], "Present")
    /\ th[t].prev.op = "none" /\ th[u].prev.op = "none"
    /\ KeyOf(th[t]) = KeyOf(th[u])
    /\ th[t].value # th[u].value

\* C11: of two Present calls of distinct values at one name that both return nil, the
\* record set holds both values when one call read after the other wrote; when it does
\* not hold both, it holds exactly one of them, and each call read before the other
\* wrote (the lost update).
C11_LostUpdate ==
    \A t, u \in Threads :
        TwoPresents(t, u) =>
            LET key == KeyOf(th[t])
                has(x) == <<th[x].value>> \in Range(store[key])
            IN  /\ key \in DOMAIN store
                /\ store[key] \in {th[t].written.TxtRecords, th[u].written.TxtRecords}
                /\ has(t) \/ has(u)
                /\ (\/ th[u].value \in FirstStrings(th[t].rset)
                    \/ th[t].value \in FirstStrings(th[u].rset)) => (has(t) /\ has(u))

\* both calls returned nil and the value of one of them is not in the record set
C11_Witness ==
    \E t, u \in Threads :
        /\ TwoPresents(t, u)
        /\ <<th[t].value>> \in Range(store[KeyOf(th[t])])
        /\ <<th[u].value>> \notin Range(store[KeyOf(th[t])])
        /\ <<"a">> \in Range(store[KeyOf(th[t])])

\* the (zone, subDomain) a call targets
Target(c) == [zone |-> c.zone, name |-> c.subDomain]

SameAt(k) ==
    \/ k \notin DOMAIN store /\ k \notin DOMAIN store'
    \/ k \in DOMAIN store /\ k \in DOMAIN store' /\ store'[k] = store[k]

\* C12: under every interleaving, a step of a call leaves the record set of every name
\* but its own as it is, reads only the record set of its own name, and addresses every
\* record call to its own (zone, subDomain).
C12_OtherNamesUntouched ==
    [][\A t \in Threads :
          th'[t] # th[t] =>
              /\ \A k \in (DOMAIN store \cup DOMAIN store') \ {Target(th'[t])} : SameAt(k)
              /\ (th[t].pc = "get" /\ th'[t].getErr.isNil) =>
                     /\ Target(th[t]) \in DOMAIN store
                     /\ th'[t].rset.TxtRecords = store[Target(th[t])]
              /\ \A i \in DOMAIN th'[t].calls :
                     IsRecordCall(th'[t].calls[i]) =>
                         /\ th'[t].calls[i].zone = th'[t].zone
                         /\ th'[t].calls[i].name = th'[t].subDomain]_vars

\* a CleanUp of one name and a Present of another both returned nil, and the record set
\* of the other name is what its Present wrote
C12_Witness ==
    \E t, u \in Threads :
        /\ Succeeded(th[t], "CleanUp") /\ Succeeded(th[u], "Present")
        /\ th[t].prev.op = "none" /\ th[u].prev.op = "none"
        /\ th[t].found.stored
        /\ Target(th[t]) # Target(th[u])
        /\ th[t].zone = th[u].zone
        /\ Target(th[t]) \notin DOMAIN store
        /\ Target(th[u]) \in DOMAIN store
        /\ store[Target(th[u])] = th[u].written.TxtRecords

EndsWithDot(name) == Len(name) # 0 /\ name[Len(name)] = "."

\* C13: the zone name the lookup path resolves to never ends with a dot, whatever the
\* zone read answered, and no record call is addressed to a zone name that ends with one.
C13_ZoneNameWithoutDot ==
    \A t \in Threads :
        LET c == th[t]
        IN  (c.op # "none" /\ envZoneName = EmptyStr) =>
                /\ ~EndsWithDot(c.zone)
                /\ \A i \in DOMAIN c.calls :
                       IsRecordCall(c.calls[i]) => ~EndsWithDot(c.calls[i].zone)

Distinct(txt) == \A i, j \in DOMAIN txt : i # j => txt[i] # txt[j]

\* C14: every record set a Present wrote consists of pairwise distinct single-string
\* records, whatever the record set read held; so a record set at a name that started
\* without one never holds a value twice.
C14_DistinctValues ==
    /\ \A t \in Threads :
           th[t].written.stored =>
               /\ Distinct(th[t].written.TxtRecords)
               /\ SingleStrings(th[t].written.TxtRecords)
    /\ \A k \in DOMAIN store \ {Key0} : Distinct(store[k]) /\ SingleStrings(store[k])

\* Present succeeded on a record set that held the first string "a" twice
C14_Witness ==
    \E t \in Threads :
        /\ Succeeded(th[t], "Present")
        /\ th[t].rset.TxtRecords = << <<"a", "b">>, << >>, <<"a">> >>
        /\ StoredAsWritten(th[t])
        /\ Count(<<"a">>, store[KeyOf(th[t])]) = 1

\* C15: Timeout returns the configured propagation timeout and polling interval, the
\* same pair at every point of a sequence of calls, and a Timeout step changes nothing
\* else: no configuration, no record set, no call and no call log.
C15_TimeoutPureRead ==
    /\ [](timeoutRet \in {NoDurations, <<config.PropagationTimeout, config.PollingInterval>>})
    /\ [][/\ config' = config
          /\ timeoutRet' # timeoutRet =>
                /\ timeoutRet' = <<config.PropagationTimeout, config.PollingInterval>>
                /\ UNCHANGED <<envZoneName, zoneNameDot, store, th, budget>>]_vars

\* Timeout returned the pair of the second configuration in a run in which a call
\* failed and a later call changed the store
C15_Witness ==
    /\ timeoutRet = <<300, 5>>
    /\ \E t \in Threads :
           /\ Succeeded(th[t], "Present")
           /\ th[t].prev.op # "none" /\ ~th[t].prev.ok

Apis(c) == [i \in DOMAIN c.calls |-> c.calls[i].api]

IsPrefix(seq, of) == Len(seq) <= Len(of) /\ seq = SubSeq(of, 1, Len(seq))

ZoneCalls == IF envZoneName = EmptyStr THEN <<"FindZoneByFqdn", "PrivateZones.Get">> ELSE << >>

\* C16: the outbound calls of a Present are, in this order and each at most once, the
\* zone resolution, the record read and the record write; the write follows a read
\* answered with success or "not found" and is not repeated when it fails.  The only
\* record call of a CleanUp is one delete, after zone and sub-domain were resolved.
C16_CallOrder ==
    \A t \in Threads :
        LET c == th[t]
        IN  /\ c.op = "Present" =>
                /\ IsPrefix(Apis(c), ZoneCalls \o <<"RecordSets.Get", "RecordSets.CreateOrUpdate">>)
                /\ HasCall(c, "RecordSets.Get") => (~c.zoneFault /\ c.subDomain # EmptyStr)
                /\ HasCall(c, "RecordSets.CreateOrUpdate") =>
                       /\ c.getErr.isNil \/ c.getErr = DetailedError(StatusNotFound)
                       /\ c.pc = "idle"
                /\ c.ret = "azure: put" => Apis(c)[Len(c.calls)] = "RecordSets.CreateOrUpdate"
            /\ c.op = "CleanUp" =>
                /\ IsPrefix(Apis(c), ZoneCalls \o <<"RecordSets.Delete">>)
                /\ HasCall(c, "RecordSets.Delete") =>
                       /\ ~c.zoneFault /\ c.subDomain # EmptyStr
                       /\ c.pc = "idle"

\* a Present returned the error of its write after a lookup, a zone read and a record read
C16_Witness ==
    \E t \in Threads :
        /\ th[t].op = "Present" /\ th[t].pc = "idle" /\ th[t].ret = "azure: put"
        /\ Apis(th[t]) = <<"FindZoneByFqdn", "PrivateZones.Get",
                           "RecordSets.Get", "RecordSets.CreateOrUpdate">>

\* C17: a successful Present writes exactly its value and the first string of every
\* record it read that has one; the further strings of a record are no longer stored.
C17_FirstStringCollapse ==
    \A t \in Threads :
        LET c == th[t]
            read == c.rset.TxtRecords
        IN  Succeeded(c, "Present") =>
                /\ StoredAsWritten(c)
                /\ Range(store[KeyOf(c)]) =
                       {<<c.value>>} \cup {<<read[i][1]>> : i \in {j \in DOMAIN read : read[j] # << >>}}
                /\ \A i \in DOMAIN read : \A n \in 2..Len(read[i]) :
                       (read[i][n] # c.value /\ \A j \in DOMAIN read : read[j] = << >> \/ read[j][1] # read[i][n])
                           => \A r \in Range(store[KeyOf(c)]) : read[i][n] \notin Range(r)

\* Present succeeded on the records ("a", "b"), () and ("a"): "a" is kept, "b" is gone
C17_Witness ==
    \E t \in Threads :
        /\ Succeeded(th[t], "Present")
        /\ th[t].rset.TxtRecords = << <<"a", "b">>, << >>, <<"a">> >>
        /\ Range(store[KeyOf(th[t])]) = {<<"a">>, <<th[t].value>>}

\* C18: with a zone override that is not the effective FQDN's suffix after a non-empty
\* prefix, a call returns the sub-domain extraction error in its first step, without
\* any outbound call, and the store stays as it is.
C18_MismatchingOverride ==
    [][\A t \in Threads :
          (/\ th'[t] # th[t]
           /\ envZoneName # EmptyStr
           /\ Prefixes(th'[t].fqdn, envZoneName) = {})
          => /\ th[t].pc = "idle" /\ th'[t].pc = "idle"
             /\ th'[t].ret = "azure: subdomain"
             /\ th'[t].calls = << >>
             /\ store' = store]_vars

\* with the override sub.example.com, the Present and then the CleanUp of example.com
\* returned the extraction error, and the record set of the name is still stored
C18_Witness ==
    \E t \in Threads :
        /\ envZoneName = sub_example_com
        /\ th[t].op = "CleanUp" /\ th[t].ret = "azure: subdomain"
        /\ th[t].fqdn = acme_example_com \o Dot
        /\ th[t].prev.op = "Present" /\ ~th[t].prev.ok /\ th[t].prev.subDomain = EmptyStr
        /\ Key0 \in DOMAIN store

\* C19: a successful Present of v on a record set of single-string values leaves those
\* values and v, so that successive Presents add up; a value leaves a record set only
\* when a CleanUp deletes the whole set.
C19_PresentOnlyAdds ==
    [][\A t \in Threads :
          LET k == Target(th[t])
          IN  th'[t] # th[t] =>
                  /\ (/\ th[t].pc = "put" /\ th'[t].ret = "nil"
                      /\ k \in DOMAIN store /\ SingleStrings(store[k]))
                     => Range(store'[k]) = Range(store[k]) \cup {<<th[t].value>>}
                  /\ \A x \in DOMAIN store :
                        (/\ SingleStrings(store[x])
                         /\ x \notin DOMAIN store' \/ ~(Range(store[x]) \subseteq Range(store'[x])))
                        => /\ th[t].pc = "delete" /\ th'[t].ret = "nil"
                           /\ x = k /\ x \notin DOMAIN store']_vars

\* Presents of dgst1 and then dgst2 on {a, b} left {a, b, dgst1, dgst2}
C19_Witness ==
    \E t \in Threads :
        /\ Succeeded(th[t], "Present") /\ th[t].value = "dgst2"
        /\ th[t].prev.op = "Present" /\ th[t].prev.ok /\ th[t].prev.value = "dgst1"
        /\ KeyOf(th[t]) = Key0 /\ th[t].prev.zone = th[t].zone
        /\ th[t].prev.subDomain = th[t].subDomain
        /\ Range(store[Key0]) = {<<"a">>, <<"b">>, <<"dgst1">>, <<"dgst2">>}

\* C20: a CleanUp whose zone lookup or zone read is answered with an error returns the
\* zone error without a record call, and what a preceding successful Present published
\* is still stored; a later CleanUp that succeeds leaves no record set at its name.
C20_CleanUpZoneFault ==
    \A t \in Threads :
        LET c == th[t]
            published == Key(c.prev.zone, c.prev.subDomain)
        IN  /\ (c.op = "CleanUp" /\ c.zoneFault) =>
                    /\ c.pc = "idle" /\ c.ret = "azure: zone"
                    /\ \A i \in DOMAIN c.calls : ~IsRecordCall(c.calls[i])
                    /\ (c.prev.op = "Present" /\ c.prev.ok) =>
                           /\ published \in DOMAIN store
                           /\ <<c.prev.value>> \in Range(store[published])
            /\ (Succeeded(c, "CleanUp") /\ c.prev.op = "CleanUp" /\ ~c.prev.ok) =>
                    KeyOf(c) \notin DOMAIN store

\* after a Present, a CleanUp that failed on the zone and a CleanUp that succeeded, the
\* record set the Present created is gone
C20_Witness ==
    \E t \in Threads :
        LET c == th[t]
        IN  /\ Succeeded(c, "CleanUp")
            /\ c.prev.op = "CleanUp" /\ ~c.prev.ok /\ c.prev.zone = EmptyStr
            /\ KeyOf(c) # Key0
            /\ c.found.stored /\ <<c.value>> \in Range(c.found.TxtRecords)
            /\ KeyOf(c) \notin DOMAIN store

====
